---- MODULE Spec2Model ----
(***************************************************************************)
(* Connection pool of src/client/pool.rs: the connect() constructor, the   *)
(* spawned pool actor with its per-command arms, the placement of Join     *)
(* commands, the reference-counted ConnectionHandle with its Drop hook,    *)
(* and the callers that submit commands through the pool handle.           *)
(***************************************************************************)
EXTENDS Integers, Sequences, FiniteSets, TLC

\* Bounds of the model.
MaxInit == 2
MaxThreshold == 1
MaxLimit == 1
MaxSessions == 3
MaxCmds == 3
QueueCap == 2
MaxSenders == 2
MaxEvents == 3
MaxSubs == 2

Channels == {"c1", "c2"}
NoChannel == "-"
Sessions == 1..MaxSessions
CmdIds == 1..MaxCmds
NoSession == 0
NoCmd == 0

VARIABLES
    pool_cfg,                 \* PoolConfig given to connect()
    connectResult,            \* "pending" | "Ok" | "Err" | "panic"
    created,                  \* number of sessions the factory has produced
    strong,                   \* Arc strong count of every ConnectionHandle
    spawned,                  \* close tasks spawned by Drop, per session
    ran,                      \* close tasks that have run, per session
    inbox,                    \* messages waiting in each session's receiver
    joined_channels,          \* context.joined_channels of every session
    connections,              \* default_connections, then pool.connections
    whisper_connection,       \* pool.whisper_connection
    channel_connections_map,  \* pool.channel_connections_map (weak handles)
    queue,                    \* mpsc command queue (command ids)
    senders,                  \* live clones of the queue's sending side
    submitted,                \* number of commands submitted so far
    cmds,                     \* message of every submitted command
    reply,                    \* values sent into every command's responder
    responderDropped,         \* responders dropped without a value
    route,                    \* path every processed command took
    target,                   \* sessions every command was dispatched to
    pc,                       \* position of the actor task
    cur,                      \* command the actor is processing
    handle,                   \* session the actor is sending to
    owned,                    \* handle is an upgraded Arc (temporary ref)
    observed,                 \* joined-channel counts read by the scan
    closeIdx,                 \* position of the Close arm's loop
    events,                   \* values sent on the event broadcast channel
    subs                      \* receivers made by subscribe_events

vars == << pool_cfg, connectResult, created, strong, spawned, ran, inbox,
           joined_channels, connections, whisper_connection,
           channel_connections_map, queue, senders, submitted, cmds, reply,
           responderDropped, route, target, pc, cur, handle, owned,
           observed, closeIdx, events, subs >>

sessionVars == << created, strong, spawned, ran, inbox, joined_channels >>
poolVars == << connections, whisper_connection, channel_connections_map >>
callerVars == << queue, senders, submitted, cmds >>
histVars == << reply, responderDropped, route, target >>
actorVars == << pc, cur, handle, owned, observed, closeIdx >>
busVars == << events, subs >>

----------------------------------------------------------------------------
\* Messages and replies

ChannelKinds == {"PrivMsg", "Part", "Join"}
PlainKinds == {"Whisper", "Ping", "Pong", "Nick", "Pass", "CapRequest",
               "Close"}
ClientMessage == [kind : ChannelKinds, channel : Channels]
                 \cup [kind : PlainKinds, channel : {NoChannel}]
NoMsg == [kind |-> "None", channel |-> NoChannel]
CloseMsg == [kind |-> "Close", channel |-> NoChannel]

OkReply == [kind |-> "Ok", msg |-> NoMsg]
SendErrReply == [kind |-> "SendError", msg |-> NoMsg]
ChannelNotJoined(m) == [kind |-> "ChannelNotJoined", msg |-> m]
UnsupportedMessage == [kind |-> "UnsupportedMessage", msg |-> NoMsg]
NewConnectionFailed == [kind |-> "NewConnectionFailed", msg |-> NoMsg]

----------------------------------------------------------------------------
\* ConnectionHandle

\* ConnectionHandle::send: the message reaches the session's sender when the
\* send succeeds.
Deliver(inb, s, m, ok) ==
    IF ok THEN [inb EXCEPT ![s] = Append(@, m)] ELSE inb

SendResult(ok) == IF ok THEN OkReply ELSE SendErrReply

\* Variant of DropArc whose hook runs at every release (a Drop on the Arc's
\* clones instead of on the shared handle).
DropArcEvery(st, s) ==
    [ strong |-> [st.strong EXCEPT ![s] = @ - 1],
      spawned |-> [st.spawned EXCEPT ![s] = @ + 1] ]

\* Releasing one Arc<ConnectionHandle>: the Drop hook of the handle runs when
\* the last strong reference goes, and spawns one task that sends Close.
DropArc(st, s) ==
    LET n == st.strong[s] - 1 IN
    [ strong |-> [st.strong EXCEPT ![s] = n],
      spawned |-> IF n = 0
                  THEN [st.spawned EXCEPT ![s] = @ + 1]
                  ELSE st.spawned ]

\* Dropping a Vec<Arc<ConnectionHandle>> releases its elements in order.
RECURSIVE DropAll(_, _)
DropAll(st, seq) ==
    IF seq = << >> THEN st ELSE DropAll(DropArc(st, Head(seq)), Tail(seq))

RefState == [strong |-> strong, spawned |-> spawned]

\* RespondWithErrors::respond_with_errors: the result of the dispatch goes
\* into the responder.
respond_with_errors(rep, id, result) ==
    [rep EXCEPT ![id] = Append(@, result)]

\* responder.send(value)
ResponderSend(rep, id, value) ==
    [rep EXCEPT ![id] = Append(@, value)]

----------------------------------------------------------------------------
\* ConnectionPool

\* Variant of get_channel_connection that falls back to the whisper
\* connection for a channel the map does not know.
get_channel_connection_or_whisper(channel) ==
    LET s == channel_connections_map[channel] IN
    IF s # NoSession /\ strong[s] > 0 THEN s ELSE whisper_connection

get_channel_connection(channel) ==
    LET s == channel_connections_map[channel] IN
    IF s # NoSession /\ strong[s] > 0 THEN s ELSE NoSession

\* Variant of FilterMap with the comparison count < threshold.
RECURSIVE FilterMapStrict(_, _, _)
FilterMapStrict(obs, i, threshold) ==
    IF i > Len(obs) THEN << >>
    ELSE IF obs[i] < threshold
         THEN << << i, obs[i] >> >> \o FilterMapStrict(obs, i + 1, threshold)
         ELSE FilterMapStrict(obs, i + 1, threshold)

\* filter_map of the Join arm: the (position, count) pairs whose count is at
\* most the threshold, in list order.
RECURSIVE FilterMap(_, _, _)
FilterMap(obs, i, threshold) ==
    IF i > Len(obs) THEN << >>
    ELSE IF obs[i] <= threshold
         THEN << << i, obs[i] >> >> \o FilterMap(obs, i + 1, threshold)
         ELSE FilterMap(obs, i + 1, threshold)

\* Variant of MinByKeyFrom that keeps the last of several minima.
RECURSIVE MinByKeyFromLast(_, _)
MinByKeyFromLast(best, rest) ==
    IF rest = << >> THEN best
    ELSE MinByKeyFromLast(IF Head(rest)[2] <= best[2] THEN Head(rest) ELSE best,
                          Tail(rest))

\* Iterator::min_by_key: a left fold that replaces the kept element only by
\* a strictly smaller one, so the first of several minima is returned.
RECURSIVE MinByKeyFrom(_, _)
MinByKeyFrom(best, rest) ==
    IF rest = << >> THEN best
    ELSE MinByKeyFrom(IF Head(rest)[2] < best[2] THEN Head(rest) ELSE best,
                      Tail(rest))

MinByKey(cands) ==
    IF cands = << >> THEN << 0, 0 >> ELSE MinByKeyFrom(Head(cands), Tail(cands))

\* Position in pool.connections of the handle the placement selects, 0 when
\* no session is eligible.
Placement(obs, threshold) == MinByKey(FilterMap(obs, 1, threshold))[1]

----------------------------------------------------------------------------
\* State after the caller has chosen a PoolConfig and entered connect()

Init ==
    /\ pool_cfg \in [ init_connections : 0..MaxInit,
                      connection_limit : 1..MaxLimit,
                      threshold : 0..MaxThreshold ]
    /\ connectResult = "pending"
    /\ created = 0
    /\ strong = [s \in Sessions |-> 0]
    /\ spawned = [s \in Sessions |-> 0]
    /\ ran = [s \in Sessions |-> 0]
    /\ inbox = [s \in Sessions |-> << >>]
    /\ joined_channels = [s \in Sessions |-> {}]
    /\ connections = << >>
    /\ whisper_connection = NoSession
    /\ channel_connections_map = [c \in Channels |-> NoSession]
    /\ queue = << >>
    /\ senders = 0
    /\ submitted = 0
    /\ cmds = [i \in CmdIds |-> NoMsg]
    /\ reply = [i \in CmdIds |-> << >>]
    /\ responderDropped = {}
    /\ route = [i \in CmdIds |-> "none"]
    /\ target = [i \in CmdIds |-> << >>]
    /\ pc = "none"
    /\ cur = NoCmd
    /\ handle = NoSession
    /\ owned = FALSE
    /\ observed = << >>
    /\ closeIdx = 0
    /\ events = << >>
    /\ subs = << >>

----------------------------------------------------------------------------
\* connect()

\* One iteration of the initial-connections loop: new_connection(..).await?
ConnectLoop ==
    /\ connectResult = "pending"
    /\ Len(connections) < pool_cfg.init_connections
    /\ \E ok \in BOOLEAN :
         IF ok
         THEN /\ created < MaxSessions
              /\ created' = created + 1
              /\ strong' = [strong EXCEPT ![created + 1] = 1]
              /\ connections' = Append(connections, created + 1)
              /\ UNCHANGED << connectResult, spawned >>
         ELSE \* `?` returns the error; default_connections is dropped
              LET st == DropAll(RefState, connections) IN
              /\ connectResult' = "Err"
              /\ strong' = st.strong
              /\ spawned' = st.spawned
              /\ connections' = << >>
              /\ UNCHANGED created
    /\ UNCHANGED busVars
    /\ UNCHANGED << pool_cfg, ran, inbox, joined_channels,
                    whisper_connection, channel_connections_map >>
    /\ UNCHANGED << callerVars, histVars, actorVars >>

\* After the loop: build the pool from default_connections[0], spawn the
\* actor and return the handle.  Indexing an empty vector panics.
ConnectBuild ==
    /\ connectResult = "pending"
    /\ Len(connections) = pool_cfg.init_connections
    /\ IF connections = << >>
       THEN /\ connectResult' = "panic"
            /\ UNCHANGED << strong, whisper_connection, pc, senders >>
       ELSE /\ connectResult' = "Ok"
            /\ whisper_connection' = connections[1]
            /\ strong' = [strong EXCEPT ![connections[1]] = @ + 1]
            /\ pc' = "recv"
            /\ senders' = 1
    /\ UNCHANGED busVars
    /\ UNCHANGED << pool_cfg, created, spawned, ran, inbox, joined_channels, connections, channel_connections_map,
                    queue, submitted, cmds, cur, handle, owned, observed,
                    closeIdx >>
    /\ UNCHANGED histVars

----------------------------------------------------------------------------
\* Callers holding the pool handle

\* MessageSender::send through the pool handle: a command envelope with a
\* fresh responder enters the queue.
Submit ==
    /\ connectResult = "Ok"
    /\ senders > 0
    /\ submitted < MaxCmds
    /\ Len(queue) < QueueCap
    /\ \E m \in ClientMessage :
         /\ cmds' = [cmds EXCEPT ![submitted + 1] = m]
         /\ queue' = Append(queue, submitted + 1)
         /\ submitted' = submitted + 1
    /\ UNCHANGED busVars
    /\ UNCHANGED << pool_cfg, connectResult, senders >>
    /\ UNCHANGED << sessionVars, poolVars, histVars, actorVars >>

\* ConnectionPoolHandle::clone_sender
CloneSender ==
    /\ connectResult = "Ok"
    /\ senders > 0
    /\ senders < MaxSenders
    /\ senders' = senders + 1
    /\ UNCHANGED busVars
    /\ UNCHANGED << pool_cfg, connectResult, queue, submitted, cmds >>
    /\ UNCHANGED << sessionVars, poolVars, histVars, actorVars >>

\* A pool handle or a cloned sender goes out of scope.
DropSender ==
    /\ connectResult = "Ok"
    /\ senders > 0
    /\ senders' = senders - 1
    /\ UNCHANGED busVars
    /\ UNCHANGED << pool_cfg, connectResult, queue, submitted, cmds >>
    /\ UNCHANGED << sessionVars, poolVars, histVars, actorVars >>

----------------------------------------------------------------------------
\* The actor task: one arm per command kind

\* Variant of Dequeue that takes the next command while a send is still
\* awaited (each command handled without waiting for the one before).
DequeueWhileSending(kinds) ==
    /\ pc \in {"recv", "send"}
    /\ queue # << >>
    /\ cmds[Head(queue)].kind \in kinds
    /\ queue' = Tail(queue)
    /\ cur' = Head(queue)

Dequeue(kinds) ==
    /\ pc = "recv"
    /\ queue # << >>
    /\ cmds[Head(queue)].kind \in kinds
    /\ queue' = Tail(queue)
    /\ cur' = Head(queue)

\* The actor starts handle.send(client_message) on session s.
StartSend(id, s, how, isOwned) ==
    /\ pc' = "send"
    /\ handle' = s
    /\ owned' = isOwned
    /\ route' = [route EXCEPT ![id] = how]
    /\ target' = [target EXCEPT ![id] = Append(@, s)]

\* PrivMsg and Part arms: dispatch through the channel map, or answer
\* ChannelNotJoined with the message itself.
ChannelArm(kind) ==
    /\ Dequeue({kind})
    /\ LET id == Head(queue)
           m == cmds[id]
           h == get_channel_connection(m.channel)
       IN IF h # NoSession
          THEN /\ StartSend(id, h, "map", TRUE)
               /\ strong' = [strong EXCEPT ![h] = @ + 1]
               /\ UNCHANGED reply
          ELSE /\ reply' = ResponderSend(reply, id, ChannelNotJoined(m))
               /\ route' = [route EXCEPT ![id] = "notjoined"]
               /\ UNCHANGED << strong, target, pc, handle, owned >>
    /\ UNCHANGED busVars
    /\ UNCHANGED << pool_cfg, connectResult, created, spawned, ran, inbox,
                    joined_channels, senders, submitted, cmds,
                    responderDropped, observed, closeIdx >>
    /\ UNCHANGED poolVars

PrivMsgArm == ChannelArm("PrivMsg")

PartArm == ChannelArm("Part")

\* Variant of WhisperConnectionArm that sends to the last connection of the
\* list instead of the whisper connection.
WhisperConnectionArmLast(kinds) ==
    /\ Dequeue(kinds)
    /\ StartSend(Head(queue), connections[Len(connections)], "whisper", FALSE)
    /\ UNCHANGED busVars
    /\ UNCHANGED << pool_cfg, connectResult, senders, submitted, cmds, reply,
                    responderDropped, observed, closeIdx >>
    /\ UNCHANGED << sessionVars, poolVars >>

\* Whisper, Ping and Pong arms: pool.whisper_connection.send(..)
WhisperConnectionArm(kinds) ==
    /\ Dequeue(kinds)
    /\ StartSend(Head(queue), whisper_connection, "whisper", FALSE)
    /\ UNCHANGED busVars
    /\ UNCHANGED << pool_cfg, connectResult, senders, submitted, cmds, reply,
                    responderDropped, observed, closeIdx >>
    /\ UNCHANGED << sessionVars, poolVars >>

WhisperArm == WhisperConnectionArm({"Whisper"})

PingPongArm == WhisperConnectionArm({"Ping", "Pong"})

\* Join arm up to its first await: a channel the map knows goes to its
\* session, any other channel starts the scan of pool.connections.
JoinArm ==
    /\ Dequeue({"Join"})
    /\ LET id == Head(queue)
           h == get_channel_connection(cmds[id].channel)
       IN IF h # NoSession
          THEN /\ StartSend(id, h, "map", TRUE)
               /\ strong' = [strong EXCEPT ![h] = @ + 1]
               /\ UNCHANGED observed
          ELSE /\ pc' = "scan"
               /\ observed' = << >>
               /\ UNCHANGED << strong, handle, owned, route, target >>
    /\ UNCHANGED busVars
    /\ UNCHANGED << pool_cfg, connectResult, created, spawned, ran, inbox,
                    joined_channels, senders, submitted, cmds,
                    reply, responderDropped, closeIdx >>
    /\ UNCHANGED poolVars

\* One step of the filter_map stream: read the next handle's
\* context.joined_channels under its read lock and take its length.
JoinScan ==
    /\ pc = "scan"
    /\ Len(observed) < Len(connections)
    /\ observed' = Append(observed,
           Cardinality(joined_channels[connections[Len(observed) + 1]]))
    /\ UNCHANGED busVars
    /\ UNCHANGED << pool_cfg, connectResult, pc, cur, handle, owned,
                    closeIdx >>
    /\ UNCHANGED << sessionVars, poolVars, callerVars, histVars >>

\* The scan is collected: the session of minimum count among the eligible
\* ones gets the Join, and with none eligible a new connection is requested.
JoinPlace ==
    /\ pc = "scan"
    /\ Len(observed) = Len(connections)
    /\ LET k == Placement(observed, pool_cfg.threshold) IN
       IF k # 0
       THEN StartSend(cur, connections[k], "placed", FALSE)
       ELSE /\ pc' = "newconn"
            /\ UNCHANGED << handle, owned, route, target >>
    /\ UNCHANGED busVars
    /\ UNCHANGED << pool_cfg, connectResult, cur, observed, closeIdx, reply,
                    responderDropped >>
    /\ UNCHANGED << sessionVars, poolVars, callerVars >>

\* Variant of JoinNewConnection that also broadcasts the failure to the
\* event subscribers.
JoinNewConnectionBroadcast ==
    /\ pc = "newconn"
    /\ \E ok \in BOOLEAN :
         IF ok
         THEN /\ created < MaxSessions
              /\ created' = created + 1
              /\ strong' = [strong EXCEPT ![created + 1] = 1]
              /\ pc' = "sendnew"
              /\ handle' = created + 1
              /\ route' = [route EXCEPT ![cur] = "new"]
              /\ target' = [target EXCEPT ![cur] = Append(@, created + 1)]
              /\ UNCHANGED << reply, events >>
         ELSE /\ reply' = respond_with_errors(reply, cur, NewConnectionFailed)
              /\ events' = Append(events, [src |-> NoSession,
                                           n |-> Len(events) + 1])
              /\ route' = [route EXCEPT ![cur] = "newfailed"]
              /\ pc' = "recv"
              /\ UNCHANGED << created, strong, handle, target >>
    /\ UNCHANGED << spawned, ran, inbox, joined_channels, cur, owned,
                    observed, closeIdx, responderDropped, subs >>
    /\ UNCHANGED << pool_cfg, connectResult, poolVars, callerVars >>

\* new_connection(..).await on the Join arm
JoinNewConnection ==
    /\ pc = "newconn"
    /\ \E ok \in BOOLEAN :
         IF ok
         THEN /\ created < MaxSessions
              /\ created' = created + 1
              /\ strong' = [strong EXCEPT ![created + 1] = 1]
              /\ pc' = "sendnew"
              /\ handle' = created + 1
              /\ route' = [route EXCEPT ![cur] = "new"]
              /\ target' = [target EXCEPT ![cur] = Append(@, created + 1)]
              /\ UNCHANGED reply
         ELSE /\ reply' = respond_with_errors(reply, cur, NewConnectionFailed)
              /\ route' = [route EXCEPT ![cur] = "newfailed"]
              /\ pc' = "recv"
              /\ UNCHANGED << created, strong, handle, target >>
    /\ UNCHANGED busVars
    /\ UNCHANGED << pool_cfg, connectResult, spawned, ran, inbox, joined_channels, cur, owned, observed, closeIdx,
                    responderDropped >>
    /\ UNCHANGED << poolVars, callerVars >>

\* Variant of JoinSendNew that keeps the new connection and registers the
\* channel only when the dispatch succeeded, and drops it otherwise.
JoinSendNewOnlyOk ==
    /\ pc = "sendnew"
    /\ \E ok \in BOOLEAN :
         /\ inbox' = Deliver(inbox, handle, cmds[cur], ok)
         /\ reply' = respond_with_errors(reply, cur, SendResult(ok))
         /\ IF ok
            THEN /\ connections' = Append(connections, handle)
                 /\ channel_connections_map' =
                        [channel_connections_map EXCEPT
                             ![cmds[cur].channel] = handle]
                 /\ UNCHANGED << strong, spawned >>
            ELSE /\ strong' = DropArc(RefState, handle).strong
                 /\ spawned' = DropArc(RefState, handle).spawned
                 /\ UNCHANGED << connections, channel_connections_map >>
    /\ pc' = "recv"
    /\ UNCHANGED busVars
    /\ UNCHANGED << pool_cfg, connectResult, created, ran,
                    joined_channels, whisper_connection, cur,
                    handle, owned, observed, closeIdx, responderDropped,
                    route, target >>
    /\ UNCHANGED callerVars

\* Variant of JoinSendNew that registers the channel but lets the new
\* connection go out of scope instead of pushing it.
JoinSendNewNoPush ==
    /\ pc = "sendnew"
    /\ \E ok \in BOOLEAN :
         /\ inbox' = Deliver(inbox, handle, cmds[cur], ok)
         /\ reply' = respond_with_errors(reply, cur, SendResult(ok))
    /\ strong' = DropArc(RefState, handle).strong
    /\ spawned' = DropArc(RefState, handle).spawned
    /\ channel_connections_map' =
           [channel_connections_map EXCEPT ![cmds[cur].channel] = handle]
    /\ pc' = "recv"
    /\ UNCHANGED busVars
    /\ UNCHANGED << pool_cfg, connectResult, created, ran,
                    joined_channels, connections, whisper_connection, cur,
                    handle, owned, observed, closeIdx, responderDropped,
                    route, target >>
    /\ UNCHANGED callerVars

\* conn.send(client_message) on the new connection has completed: respond,
\* push the connection and insert the channel's weak handle.
JoinSendNew ==
    /\ pc = "sendnew"
    /\ \E ok \in BOOLEAN :
         /\ inbox' = Deliver(inbox, handle, cmds[cur], ok)
         /\ reply' = respond_with_errors(reply, cur, SendResult(ok))
    /\ connections' = Append(connections, handle)
    /\ channel_connections_map' =
           [channel_connections_map EXCEPT ![cmds[cur].channel] = handle]
    /\ pc' = "recv"
    /\ UNCHANGED busVars
    /\ UNCHANGED << pool_cfg, connectResult, created, strong, spawned, ran,
                    joined_channels, whisper_connection, cur,
                    handle, owned, observed, closeIdx, responderDropped,
                    route, target >>
    /\ UNCHANGED callerVars

\* handle.send(client_message) has completed on an arm that dispatches to an
\* existing session: respond, and release the upgraded handle if there is one.
SendDone ==
    /\ pc = "send"
    /\ \E ok \in BOOLEAN :
         /\ inbox' = Deliver(inbox, handle, cmds[cur], ok)
         /\ reply' = respond_with_errors(reply, cur, SendResult(ok))
    /\ LET st == IF owned THEN DropArc(RefState, handle) ELSE RefState IN
         /\ strong' = st.strong
         /\ spawned' = st.spawned
    /\ pc' = "recv"
    /\ owned' = FALSE
    /\ UNCHANGED busVars
    /\ UNCHANGED << pool_cfg, connectResult, created, ran, joined_channels, cur, handle, observed, closeIdx,
                    responderDropped, route, target >>
    /\ UNCHANGED << poolVars, callerVars >>

\* Variant of UnsupportedArm that forwards the command to the whisper
\* connection like Ping and Pong.
UnsupportedArmForwarded(kind) ==
    /\ Dequeue({kind})
    /\ StartSend(Head(queue), whisper_connection, "whisper", FALSE)
    /\ UNCHANGED busVars
    /\ UNCHANGED << pool_cfg, connectResult, senders, submitted, cmds, reply,
                    responderDropped, observed, closeIdx >>
    /\ UNCHANGED << sessionVars, poolVars >>

\* Nick, Pass and CapRequest arms
UnsupportedArm(kind) ==
    /\ Dequeue({kind})
    /\ reply' = ResponderSend(reply, Head(queue), UnsupportedMessage)
    /\ route' = [route EXCEPT ![Head(queue)] = "rejected"]
    /\ UNCHANGED busVars
    /\ UNCHANGED << pool_cfg, connectResult, senders, submitted, cmds,
                    responderDropped, target, pc, handle, owned, observed,
                    closeIdx >>
    /\ UNCHANGED << sessionVars, poolVars >>

NickArm == UnsupportedArm("Nick")

PassArm == UnsupportedArm("Pass")

CapRequestArm == UnsupportedArm("CapRequest")

\* Close arm: enter the loop over pool.connections.
CloseArm ==
    /\ Dequeue({"Close"})
    /\ pc' = "close"
    /\ closeIdx' = 1
    /\ route' = [route EXCEPT ![Head(queue)] = "close"]
    /\ UNCHANGED busVars
    /\ UNCHANGED << pool_cfg, connectResult, senders, submitted, cmds, reply,
                    responderDropped, target, handle, owned, observed >>
    /\ UNCHANGED << sessionVars, poolVars >>

\* Variant of CloseStep that reports a failed send and goes on with the
\* remaining connections.
CloseStepNoBreak ==
    /\ pc = "close"
    /\ target' = [target EXCEPT ![cur] = Append(@, connections[closeIdx])]
    /\ \E ok \in BOOLEAN :
         /\ inbox' = Deliver(inbox, connections[closeIdx], CloseMsg, ok)
         /\ reply' = IF ok \/ reply[cur] # << >> THEN reply
                     ELSE ResponderSend(reply, cur, SendErrReply)
         /\ IF closeIdx < Len(connections)
            THEN /\ closeIdx' = closeIdx + 1
                 /\ UNCHANGED << pc, responderDropped >>
            ELSE /\ responderDropped' =
                        IF reply'[cur] = << >>
                        THEN responderDropped \cup {cur}
                        ELSE responderDropped
                 /\ pc' = "recv"
                 /\ UNCHANGED closeIdx
    /\ UNCHANGED busVars
    /\ UNCHANGED << pool_cfg, connectResult, created, strong, spawned, ran,
                    joined_channels, cur, handle, owned, observed,
                    route >>
    /\ UNCHANGED << poolVars, callerVars >>

\* One connection.send(ClientMessage::Close).await of the loop: an error goes
\* to the responder and breaks the loop; when the loop runs out, the responder
\* goes out of scope with the arm.
CloseStep ==
    /\ pc = "close"
    /\ target' = [target EXCEPT ![cur] = Append(@, connections[closeIdx])]
    /\ \E ok \in BOOLEAN :
         /\ inbox' = Deliver(inbox, connections[closeIdx], CloseMsg, ok)
         /\ IF ~ok
            THEN /\ reply' = ResponderSend(reply, cur, SendErrReply)
                 /\ pc' = "recv"
                 /\ UNCHANGED << closeIdx, responderDropped >>
            ELSE IF closeIdx < Len(connections)
                 THEN /\ closeIdx' = closeIdx + 1
                      /\ UNCHANGED << reply, pc, responderDropped >>
                 ELSE /\ responderDropped' = responderDropped \cup {cur}
                      /\ pc' = "recv"
                      /\ UNCHANGED << reply, closeIdx >>
    /\ UNCHANGED busVars
    /\ UNCHANGED << pool_cfg, connectResult, created, strong, spawned, ran,
                    joined_channels, cur, handle, owned, observed,
                    route >>
    /\ UNCHANGED << poolVars, callerVars >>

\* Variant of ActorExit that ends the loop as soon as every sender is gone,
\* whatever is still queued.
ActorExitOnClosed ==
    /\ pc = "recv"
    /\ senders = 0
    /\ LET st == DropAll(RefState, connections) IN
         /\ strong' = st.strong
         /\ spawned' = st.spawned
    /\ connections' = << >>
    /\ pc' = "drop_whisper"
    /\ UNCHANGED busVars
    /\ UNCHANGED << pool_cfg, connectResult, created, ran, inbox,
                    joined_channels, whisper_connection,
                    channel_connections_map, cur, handle, owned, observed,
                    closeIdx >>
    /\ UNCHANGED << callerVars, histVars >>

\* recv() returns None once every sender is gone and the queue is empty: the
\* loop ends and the pool is dropped, pool.connections first.
ActorExit ==
    /\ pc = "recv"
    /\ queue = << >>
    /\ senders = 0
    /\ LET st == DropAll(RefState, connections) IN
         /\ strong' = st.strong
         /\ spawned' = st.spawned
    /\ connections' = << >>
    /\ pc' = "drop_whisper"
    /\ UNCHANGED busVars
    /\ UNCHANGED << pool_cfg, connectResult, created, ran, inbox, joined_channels, whisper_connection,
                    channel_connections_map, cur, handle, owned, observed,
                    closeIdx >>
    /\ UNCHANGED << callerVars, histVars >>

\* pool.whisper_connection and the channel map are dropped after the list.
ActorDropWhisper ==
    /\ pc = "drop_whisper"
    /\ LET st == DropArc(RefState, whisper_connection) IN
         /\ strong' = st.strong
         /\ spawned' = st.spawned
    /\ whisper_connection' = NoSession
    /\ channel_connections_map' = [c \in Channels |-> NoSession]
    /\ pc' = "stopped"
    /\ UNCHANGED busVars
    /\ UNCHANGED << pool_cfg, connectResult, created, ran, inbox, joined_channels, connections, cur, handle, owned,
                    observed, closeIdx >>
    /\ UNCHANGED << callerVars, histVars >>

----------------------------------------------------------------------------
\* Background tasks

\* The task spawned by Drop for ConnectionHandle: sender.send(Close).await.ok()
CloseTask(s) ==
    /\ ran[s] < spawned[s]
    /\ ran' = [ran EXCEPT ![s] = @ + 1]
    /\ \E ok \in BOOLEAN : inbox' = Deliver(inbox, s, CloseMsg, ok)
    /\ UNCHANGED busVars
    /\ UNCHANGED << pool_cfg, connectResult, created, strong, spawned,
                    joined_channels >>
    /\ UNCHANGED << poolVars, callerVars, histVars, actorVars >>

\* A session's own task takes the next message off its receiver and updates
\* the joined-channel set of its context.
SessionHandle(s) ==
    /\ inbox[s] # << >>
    /\ inbox' = [inbox EXCEPT ![s] = Tail(@)]
    /\ LET m == Head(inbox[s]) IN
       joined_channels' =
           [joined_channels EXCEPT ![s] =
               IF m.kind = "Join" THEN @ \cup {m.channel}
               ELSE IF m.kind = "Part" THEN @ \ {m.channel}
               ELSE @]
    /\ UNCHANGED busVars
    /\ UNCHANGED << pool_cfg, connectResult, created, strong, spawned, ran >>
    /\ UNCHANGED << poolVars, callerVars, histVars, actorVars >>

----------------------------------------------------------------------------
\* Event broadcast channel

\* A session's task sends an event through its clone of event_sender.
SessionEmit(s) ==
    /\ s <= created
    /\ Len(events) < MaxEvents
    /\ events' = Append(events, [src |-> s, n |-> Len(events) + 1])
    /\ UNCHANGED subs
    /\ UNCHANGED << pool_cfg, connectResult >>
    /\ UNCHANGED << sessionVars, poolVars, callerVars, histVars, actorVars >>

\* Variant of SubscribeEvents whose receiver starts at the oldest value.
SubscribeEventsReplay ==
    /\ connectResult = "Ok"
    /\ Len(subs) < MaxSubs
    /\ subs' = Append(subs, [start |-> Len(events), next |-> 1,
                             got |-> << >>])
    /\ UNCHANGED events
    /\ UNCHANGED << pool_cfg, connectResult >>
    /\ UNCHANGED << sessionVars, poolVars, callerVars, histVars, actorVars >>

\* ConnectionPoolHandle::subscribe_events: event_sender.subscribe() makes a
\* receiver positioned after the values sent so far.
SubscribeEvents ==
    /\ connectResult = "Ok"
    /\ Len(subs) < MaxSubs
    /\ subs' = Append(subs, [start |-> Len(events),
                             next |-> Len(events) + 1,
                             got |-> << >>])
    /\ UNCHANGED events
    /\ UNCHANGED << pool_cfg, connectResult >>
    /\ UNCHANGED << sessionVars, poolVars, callerVars, histVars, actorVars >>

\* Oldest value the channel of capacity cfg.channel_buffer still retains.
Oldest == IF Len(events) > QueueCap THEN Len(events) - QueueCap + 1 ELSE 1

\* The stream of a subscription yields its next item: the next event, or
\* Overflow when the receiver lagged behind the retained values.
SubscriptionNext(k) ==
    /\ k \in 1..Len(subs)
    /\ subs[k].next <= Len(events)
    /\ subs' = [subs EXCEPT ![k] =
           IF @.next < Oldest
           THEN [@ EXCEPT !.next = Oldest,
                          !.got = Append(@, [kind |-> "Overflow", n |-> 0])]
           ELSE [@ EXCEPT !.next = @ + 1,
                          !.got = Append(@, [kind |-> "Event",
                                             n |-> events[subs[k].next].n])]]
    /\ UNCHANGED events
    /\ UNCHANGED << pool_cfg, connectResult >>
    /\ UNCHANGED << sessionVars, poolVars, callerVars, histVars, actorVars >>

NextEvents ==
    \/ ConnectLoop
    \/ ConnectBuild
    \/ \E s \in Sessions : SessionEmit(s)
    \/ SubscribeEvents
    \/ \E k \in 1..MaxSubs : SubscriptionNext(k)

SpecEvents == Init /\ [][NextEvents]_vars

----------------------------------------------------------------------------

Next ==
    \/ ConnectLoop
    \/ ConnectBuild
    \/ Submit
    \/ CloneSender
    \/ DropSender
    \/ PrivMsgArm
    \/ PartArm
    \/ WhisperArm
    \/ PingPongArm
    \/ JoinArm
    \/ JoinScan
    \/ JoinPlace
    \/ JoinNewConnection
    \/ JoinSendNew
    \/ SendDone
    \/ NickArm
    \/ PassArm
    \/ CapRequestArm
    \/ CloseArm
    \/ CloseStep
    \/ ActorExit
    \/ ActorDropWhisper
    \/ \E s \in Sessions : CloseTask(s)
    \/ \E s \in Sessions : SessionHandle(s)

Spec == Init /\ [][Next]_vars

\* Steps of the actor task.
ActorNext ==
    \/ PrivMsgArm
    \/ PartArm
    \/ WhisperArm
    \/ PingPongArm
    \/ JoinArm
    \/ JoinScan
    \/ JoinPlace
    \/ JoinNewConnection
    \/ JoinSendNew
    \/ SendDone
    \/ NickArm
    \/ PassArm
    \/ CapRequestArm
    \/ CloseArm
    \/ CloseStep
    \/ ActorExit
    \/ ActorDropWhisper

\* The runtime keeps polling the actor task and the spawned close tasks, and
\* the sends and connection attempts they await complete.
FairSpec ==
    /\ Spec
    /\ WF_vars(ActorNext)
    /\ \A s \in Sessions : WF_vars(CloseTask(s))

TypeOK ==
    /\ connectResult \in {"pending", "Ok", "Err", "panic"}
    /\ created \in 0..MaxSessions
    /\ \A s \in Sessions : strong[s] \in 0..3
    /\ senders \in 0..MaxSenders
    /\ Len(queue) <= QueueCap

----------------------------------------------------------------------------
\* Vocabulary of the properties

Busy == {"scan", "send", "newconn", "sendnew", "close"}

\* Commands the actor has taken off the queue.
Dequeued == {i \in 1..submitted : \A k \in 1..Len(queue) : queue[k] # i}

\* Commands whose arm has run to its end.
Done == {i \in Dequeued : ~(cur = i /\ pc \in Busy)}

\* The pool object exists: connect() returned Ok and the actor still owns it.
PoolAlive == connectResult = "Ok" /\ pc \notin {"drop_whisper", "stopped"}

\* The step takes the command at the head of the queue, of one of the kinds.
Takes(kinds) ==
    /\ pc = "recv"
    /\ queue # << >>
    /\ queue' = Tail(queue)
    /\ cmds[Head(queue)].kind \in kinds

\* The channel has no entry in the map that upgrades to a live handle.
NoLiveEntry(c) ==
    \/ channel_connections_map[c] = NoSession
    \/ strong[channel_connections_map[c]] = 0

RECURSIVE CloseCount(_)
CloseCount(seq) ==
    IF seq = << >> THEN 0
    ELSE (IF Head(seq).kind = "Close" THEN 1 ELSE 0) + CloseCount(Tail(seq))

----------------------------------------------------------------------------
\* C1: once a Join(c) of a channel without a map entry has returned Ok, a
\* later Join(c) is dispatched to the session that received the first one,
\* and creates no session.
C1_RejoinSameSession ==
    \A i, j \in CmdIds :
        ( /\ i < j
          /\ cmds[i].kind = "Join"
          /\ cmds[j] = cmds[i]
          /\ route[i] \in {"placed", "new"}
          /\ reply[i] = << OkReply >>
          /\ j \in Done
          /\ route[j] \in {"map", "placed", "new"} )
        => (route[j] # "new" /\ target[j] = target[i])

\* C2: every command the actor has finished with has exactly one value in its
\* responder, and no responder is dropped without one.
C2_ResponderResolvedOnce ==
    /\ responderDropped = {}
    /\ \A i \in CmdIds : Len(reply[i]) <= 1
    /\ \A i \in Done : Len(reply[i]) = 1

\* C3: the pool never holds more sessions than PoolConfig.connection_limit.
C3_ConnectionLimit ==
    connectResult = "Ok" => Len(connections) <= pool_cfg.connection_limit

\* C4: connect with init_connections = 0 returns an error; it does not fault
\* on default_connections[0], and starts no actor.
C4_ZeroInitFailsConstruction ==
    pool_cfg.init_connections = 0
        => (connectResult \in {"pending", "Err"} /\ pc = "none")

\* C5: a PrivMsg or Part for a channel without a live map entry is answered
\* ChannelNotJoined with the message itself, reaches no session and leaves the
\* session list and the channel map as they were.
C5_Step ==
    Takes({"PrivMsg", "Part"}) /\ NoLiveEntry(cmds[Head(queue)].channel)
        => /\ reply'[Head(queue)] = << ChannelNotJoined(cmds[Head(queue)]) >>
           /\ target'[Head(queue)] = << >>
           /\ inbox' = inbox
           /\ connections' = connections
           /\ channel_connections_map' = channel_connections_map
           /\ pc' = "recv"

C5_ChannelNotJoined == [][C5_Step]_vars

C5_Witness ==
    \E i, j \in Done :
        /\ cmds[i].kind = "PrivMsg" /\ route[i] = "notjoined"
        /\ cmds[j].kind = "Part" /\ route[j] = "notjoined"
        /\ reply[j] = << ChannelNotJoined(cmds[j]) >>
        /\ Len(connections) > 1

\* C6: Nick, Pass and CapRequest are answered UnsupportedMessage in every
\* state of the pool, reach no session and leave the session list and the
\* channel map as they were.
C6_Step ==
    Takes({"Nick", "Pass", "CapRequest"})
        => /\ reply'[Head(queue)] = << UnsupportedMessage >>
           /\ target' = target
           /\ inbox' = inbox
           /\ connections' = connections
           /\ channel_connections_map' = channel_connections_map
           /\ pc' = "recv"

C6_Unsupported == [][C6_Step]_vars

C6_Witness ==
    \E i, j, k \in Done :
        /\ cmds[i].kind = "Nick" /\ reply[i] = << UnsupportedMessage >>
        /\ cmds[j].kind = "Pass" /\ reply[j] = << UnsupportedMessage >>
        /\ cmds[k].kind = "CapRequest" /\ reply[k] = << UnsupportedMessage >>

\* C7: the whisper session is the first session of the list, it is never
\* reassigned and the head of the list never changes, and Whisper, Ping and
\* Pong go to that session and to no other.
C7_Step ==
    /\ (PoolAlive /\ PoolAlive')
           => /\ whisper_connection' = whisper_connection
              /\ connections'[1] = connections[1]
    /\ Takes({"Whisper", "Ping", "Pong"})
           => /\ pc' = "send"
              /\ handle' = connections[1]
              /\ target'[Head(queue)] = << connections[1] >>
    /\ (pc = "send" /\ pc' # "send"
            /\ cmds[cur].kind \in {"Whisper", "Ping", "Pong"})
           => /\ \A s \in Sessions \ {connections[1]} : inbox'[s] = inbox[s]
              /\ target' = target

C7_WhisperSession ==
    /\ [](PoolAlive => whisper_connection = connections[1])
    /\ [][C7_Step]_vars

C7_Witness ==
    /\ PoolAlive
    /\ Len(connections) > 1
    /\ \E i, j \in Done :
         /\ i < j
         /\ route[i] = "new"
         /\ cmds[j].kind = "Whisper"
         /\ target[j] = << whisper_connection >>
         /\ reply[j] = << OkReply >>

\* C8: a Join of a channel without a live map entry goes to an existing
\* session iff some session's observed count is at most the threshold, and
\* otherwise asks the factory for a new session; with init_connections = 1 and
\* threshold = 0 the first Join is placed and a Join of another channel, with
\* the session at count 1, creates a second session.
C8_Step ==
    /\ (Takes({"Join"}) /\ NoLiveEntry(cmds[Head(queue)].channel))
           => (pc' = "scan" /\ route' = route /\ created' = created)
    /\ (pc = "scan" /\ pc' # "scan")
           => /\ (\E k \in 1..Len(connections) :
                       observed[k] <= pool_cfg.threshold)
                  <=> ( /\ pc' = "send"
                        /\ route'[cur] = "placed"
                        /\ \E k \in 1..Len(connections) :
                               handle' = connections[k] )
              /\ (\A k \in 1..Len(connections) :
                       observed[k] > pool_cfg.threshold)
                  <=> pc' = "newconn"
              /\ created' = created
    /\ (created' # created /\ connectResult = "Ok")
           => (pc = "newconn" /\ cmds[cur].kind = "Join")
    /\ (pc = "scan" /\ pc' = "scan" /\ observed' # observed)
           => /\ Len(observed) < Len(connections)
              /\ observed' = Append(observed,
                     Cardinality(joined_channels[connections[Len(observed) + 1]]))

C9_Step ==
    (pc = "scan" /\ pc' = "send")
        => \E k \in 1..Len(connections) :
             /\ handle' = connections[k]
             /\ target'[cur] = << connections[k] >>
             /\ observed[k] <= pool_cfg.threshold
             /\ \A j \in 1..Len(connections) :
                  observed[j] <= pool_cfg.threshold
                      => /\ observed[k] <= observed[j]
                         /\ (j < k => observed[k] < observed[j])

C9_MinFirst == [][C9_Step]_vars

C9_Witness ==
    /\ pc = "send"
    /\ route[cur] = "placed"
    /\ observed = << 1, 1 >>
    /\ pool_cfg.threshold = 1
    /\ handle = connections[1]

\* C10: the release of the last strong reference of a handle spawns exactly
\* one task that sends Close to the session, the releasing step itself sends
\* nothing, and the release of a reference that is not the last spawns none.
C10_State ==
    \A s \in Sessions :
        /\ spawned[s] = (IF s <= created /\ strong[s] = 0 THEN 1 ELSE 0)
        /\ ran[s] <= spawned[s]

C10_Step ==
    \A s \in Sessions :
        /\ strong'[s] < strong[s]
               => /\ ran' = ran
                  /\ CloseCount(inbox'[s]) = CloseCount(inbox[s])
                  /\ spawned'[s] =
                         spawned[s] + (IF strong'[s] = 0 THEN 1 ELSE 0)
        /\ ran'[s] # ran[s]
               => /\ ran'[s] = ran[s] + 1
                  /\ strong' = strong
                  /\ CloseCount(inbox'[s]) <= CloseCount(inbox[s]) + 1

C10_DropSendsOneClose == []C10_State /\ [][C10_Step]_vars

C10_Witness ==
    /\ pc = "drop_whisper"
    /\ created = 2
    /\ strong[whisper_connection] = 1
    /\ spawned[whisper_connection] = 0
    /\ \E s \in Sessions :
         /\ s # whisper_connection
         /\ strong[s] = 0
         /\ spawned[s] = 1
         /\ ran[s] = 1

----------------------------------------------------------------------------
\* Vocabulary of the later properties

RECURSIVE Occurrences(_, _)
Occurrences(seq, x) ==
    IF seq = << >> THEN 0
    ELSE (IF Head(seq) = x THEN 1 ELSE 0) + Occurrences(Tail(seq), x)

RECURSIVE SumOver(_, _)
SumOver(ids, s) ==
    IF ids = {} THEN 0
    ELSE LET i == CHOOSE x \in ids : TRUE IN
         (IF cmds[i].kind = "Close"
          THEN Occurrences(target[i], s)
                   - (IF /\ reply[i] = << SendErrReply >>
                         /\ target[i][Len(target[i])] = s
                      THEN 1 ELSE 0)
          ELSE 0)
             + SumOver(ids \ {i}, s)

\* Close commands sent to a session so far: the sends of the Close arm that
\* succeeded, and the sends of the tasks its handle's Drop spawned.
CloseSends(s) == SumOver(CmdIds, s) + ran[s]

InList(s) == \E k \in 1..Len(connections) : connections[k] = s

\* C11: every session is sent Close exactly once in its lifetime, and that
\* once is after the last owner of its handle released its reference.
C11_ClosedExactlyOnce ==
    \A s \in Sessions :
        /\ CloseSends(s) <= 1
        /\ CloseSends(s) = 1 => (strong[s] = 0 /\ ran[s] = 1)
        /\ (pc = "stopped" /\ s <= created /\ ran[s] = spawned[s])
               => CloseSends(s) = 1

\* C12: the Close arm sends Close to the sessions in list order, one per
\* step; the first failed send goes to the responder and ends the arm, so
\* the sessions after it get no Close from this command.
C12_Step ==
    /\ (pc = "close" /\ target' # target)
           => /\ target[cur] = SubSeq(connections, 1, closeIdx - 1)
              /\ target'[cur] = SubSeq(connections, 1, closeIdx)
              /\ \A i \in CmdIds \ {cur} : target'[i] = target[i]
              /\ \A s \in Sessions \ {connections[closeIdx]} :
                     inbox'[s] = inbox[s]
              /\ \/ /\ inbox'[connections[closeIdx]] =
                           Append(inbox[connections[closeIdx]], CloseMsg)
                    /\ reply' = reply
                    /\ IF closeIdx < Len(connections)
                       THEN pc' = "close" /\ closeIdx' = closeIdx + 1
                       ELSE pc' = "recv"
                 \/ /\ inbox' = inbox
                    /\ reply'[cur] = << SendErrReply >>
                    /\ pc' = "recv"
    /\ \A i \in CmdIds :
           (cmds[i].kind = "Close" /\ target'[i] # target[i])
               => (pc = "close" /\ cur = i)

C12_CloseStopsAtFirstFailure == [][C12_Step]_vars

C12_Witness ==
    \E i \in Done :
        /\ cmds[i].kind = "Close"
        /\ reply[i] = << SendErrReply >>
        /\ Len(connections) = 2
        /\ target[i] = << connections[1] >>
        /\ inbox[connections[2]] = << >>

\* C15: when every session has reached the threshold (count >= threshold), a
\* Join of an unmapped channel is not placed on an existing session.
C15_AllAtThresholdCreates ==
    (pc = "send" /\ route[cur] = "placed")
        => \E k \in 1..Len(observed) : observed[k] < pool_cfg.threshold

\* C16: after a Join(c) returned Ok, a later PrivMsg(c) or Part(c) goes to
\* the session c was joined on and is not answered ChannelNotJoined.
C16_JoinedChannelRoutes ==
    \A i, j \in CmdIds :
        ( /\ i < j
          /\ cmds[i].kind = "Join"
          /\ route[i] \in {"placed", "new"}
          /\ reply[i] = << OkReply >>
          /\ cmds[j].kind \in {"PrivMsg", "Part"}
          /\ cmds[j].channel = cmds[i].channel
          /\ \A k \in CmdIds : (i < k /\ k < j) => cmds[k].kind # "Join"
          /\ j \in Done )
        => (route[j] = "map" /\ target[j] = target[i])

\* C17: a Join that finds no eligible session and gets a new session from
\* the factory ends with the session appended to the list and the channel
\* mapped to it, whether the dispatch succeeded or failed, and the responder
\* gets the outcome of the dispatch.
C17_Step ==
    /\ (pc = "newconn" /\ created' # created)
           => /\ created' = created + 1
              /\ pc' = "sendnew"
              /\ handle' = created'
              /\ ~InList(handle')
              /\ connections' = connections
              /\ channel_connections_map' = channel_connections_map
              /\ reply' = reply
    /\ (pc = "sendnew" /\ pc' # "sendnew")
           => /\ pc' = "recv"
              /\ connections' = Append(connections, handle)
              /\ channel_connections_map' =
                     [channel_connections_map EXCEPT
                          ![cmds[cur].channel] = handle]
              /\ \/ /\ reply'[cur] = << OkReply >>
                    /\ inbox'[handle] = Append(inbox[handle], cmds[cur])
                 \/ /\ reply'[cur] = << SendErrReply >>
                    /\ inbox' = inbox
    /\ (pc = "sendnew" /\ pc' = "sendnew")
           => /\ connections' = connections
              /\ channel_connections_map' = channel_connections_map

C17_NewSessionRegistered == [][C17_Step]_vars

C17_Witness ==
    \E i \in Done :
        /\ route[i] = "new"
        /\ reply[i] = << SendErrReply >>
        /\ Len(connections) = pool_cfg.init_connections + 1
        /\ target[i] = << connections[Len(connections)] >>
        /\ channel_connections_map[cmds[i].channel]
               = connections[Len(connections)]

\* C18: the actor takes a command off the queue only when no command is in
\* progress, and while one is in progress no other command is dispatched or
\* resolved.
C18_State ==
    Cardinality({i \in Dequeued :
                    reply[i] = << >> /\ i \notin responderDropped}) <= 1

C18_Step ==
    /\ (queue # << >> /\ queue' = Tail(queue))
           => (pc = "recv" /\ cur' = Head(queue))
    /\ pc \in Busy
           => /\ cur' = cur
              /\ Len(queue') >= Len(queue)
              /\ \A k \in 1..Len(queue) : queue'[k] = queue[k]
              /\ \A i \in CmdIds \ {cur} :
                     /\ reply'[i] = reply[i]
                     /\ target'[i] = target[i]
                     /\ route'[i] = route[i]
              /\ responderDropped' \subseteq responderDropped \cup {cur}

C18_Serialized == []C18_State /\ [][C18_Step]_vars

C18_Witness ==
    /\ pc = "sendnew"
    /\ Len(queue) = 1
    /\ cmds[queue[1]].kind = "Whisper"
    /\ handle # whisper_connection
    /\ reply[queue[1]] = << >>
    /\ target[queue[1]] = << >>

\* C20: while the pool exists every entry of the channel map is a session of
\* the list with a live handle, an entry that does not upgrade counts as
\* absent, and no command was dispatched through the map to a session the
\* pool does not own.
C20_MapEntriesLive ==
    /\ PoolAlive
           => \A c \in Channels :
                  channel_connections_map[c] # NoSession
                      => /\ InList(channel_connections_map[c])
                         /\ strong[channel_connections_map[c]] > 0
    /\ \A c \in Channels :
           NoLiveEntry(c) => get_channel_connection(c) = NoSession
    /\ PoolAlive
           => \A i \in CmdIds :
                  route[i] = "map"
                      => /\ Len(target[i]) = 1
                         /\ InList(target[i][1])
                         /\ strong[target[i][1]] > 0

C20_Witness ==
    /\ PoolAlive
    /\ \E i \in Done :
         /\ route[i] = "map"
         /\ cmds[i].kind = "PrivMsg"
         /\ channel_connections_map[cmds[i].channel] = target[i][1]
         /\ target[i][1] # whisper_connection

\* C13: when the factory fails on the Join arm, that Join's responder alone
\* gets NewConnectionFailed, nothing goes to the event channel, the arm ends
\* without another attempt, and the session list and the channel map stay as
\* they were.
C13_Step ==
    (pc = "newconn" /\ pc' # "sendnew" /\ reply' # reply)
        => /\ reply'[cur] = << NewConnectionFailed >>
           /\ \A i \in CmdIds \ {cur} : reply'[i] = reply[i]
           /\ events' = events
           /\ pc' = "recv"
           /\ created' = created
           /\ connections' = connections
           /\ channel_connections_map' = channel_connections_map
           /\ inbox' = inbox
           /\ target' = target

C13_State ==
    \A i \in CmdIds :
        route[i] = "newfailed"
            => /\ reply[i] = << NewConnectionFailed >>
               /\ target[i] = << >>

C13_FactoryFailure == []C13_State /\ [][C13_Step]_vars

C13_Witness ==
    \E i \in Done :
        /\ route[i] = "newfailed"
        /\ reply[i] = << NewConnectionFailed >>
        /\ events = << >>
        /\ Len(connections) = pool_cfg.init_connections
        /\ channel_connections_map[cmds[i].channel] = NoSession

\* C14: a subscription made after N events yields only events sent after it
\* was made, in order, and making or reading a subscription leaves the read
\* positions of the others alone.
C14_State ==
    \A k \in 1..Len(subs) :
        /\ subs[k].next > subs[k].start
        /\ \A j \in 1..Len(subs[k].got) :
               subs[k].got[j].kind = "Event"
                   => /\ subs[k].got[j].n > subs[k].start
                      /\ subs[k].got[j].n < subs[k].next
                      /\ \A h \in 1..(j - 1) :
                             subs[k].got[h].kind = "Event"
                                 => subs[k].got[h].n < subs[k].got[j].n

C14_Step ==
    /\ \A k \in 1..Len(subs) :
           /\ Len(subs') >= Len(subs)
           /\ subs'[k] # subs[k]
                  => \A h \in 1..Len(subs) \ {k} : subs'[h] = subs[h]
    /\ Len(subs') > Len(subs)
           => /\ Len(subs') = Len(subs) + 1
              /\ \A h \in 1..Len(subs) : subs'[h] = subs[h]
              /\ subs'[Len(subs')].start = Len(events)
              /\ subs'[Len(subs')].got = << >>

C14_NoReplay == []C14_State /\ [][C14_Step]_vars

C14_Witness ==
    /\ Len(subs) = 2
    /\ subs[1].start = 1
    /\ subs[2].start = 2
    /\ subs[1].got = << [kind |-> "Event", n |-> 2],
                        [kind |-> "Event", n |-> 3] >>
    /\ subs[2].got = << >>

\* C19: once every sender is dropped the actor finishes the command in
\* progress, drains the queue, leaves its loop and stops; it does not stop
\* while a sender exists; and when it has stopped the pool's references are
\* released and every session of the list is sent Close.
C19_State ==
    /\ pc \in {"drop_whisper", "stopped"}
           => /\ senders = 0
              /\ queue = << >>
              /\ Done = 1..submitted
    /\ pc = "stopped"
           => \A s \in Sessions :
                  s <= created => (strong[s] = 0 /\ spawned[s] = 1)

C19_Step ==
    (pc = "recv" /\ pc' = "drop_whisper")
        => \A k \in 1..Len(connections) :
               strong'[connections[k]] < strong[connections[k]]

C19_AllClosed ==
    pc = "stopped" /\ \A s \in Sessions : s <= created => ran[s] = 1

C19_ActorTermination ==
    /\ []C19_State
    /\ [][C19_Step]_vars
    /\ (connectResult = "Ok" /\ senders = 0) ~> C19_AllClosed

C19_Witness ==
    /\ C19_AllClosed
    /\ created = 3
    /\ submitted = 3
    /\ \E i \in CmdIds : route[i] = "new"

====
